---------------------------- MODULE Spec2Model ----------------------------
(***************************************************************************)
(* The whiteboard drawing model of segfal/whiteboard.                      *)
(*                                                                         *)
(* Two implementations live in the repository:                             *)
(*   - the class-based Whiteboard (include/wasm/whiteboard.hpp and         *)
(*     src/wasm/whiteboard.cpp): polymorphic DrawableElement objects held  *)
(*     through shared pointers;                                            *)
(*   - the prototype Whiteboard (wasm/whiteboard.cpp): value vectors of    *)
(*     Line and Shape structs.                                             *)
(*                                                                         *)
(* Coordinates handed in by the host are integers, held in float members:  *)
(* a coordinate is kept as the integer it stands for, and a sum that       *)
(* binary32 cannot hold (beyond 2^24) is rounded as the float addition     *)
(* rounds it.  The values that are not integers (a circle's radius, the    *)
(* distance of a point to a stroke) are binary32 values, modelled as       *)
(* [m, e] with value m * 2^e.                                              *)
(***************************************************************************)
EXTENDS Integers, Sequences, FiniteSets, TLC

VARIABLES
    objs,              \* the heap: the live DrawableElement objects, by id
    elements,          \* Whiteboard::elements, a sequence of object ids
    selectedElements,  \* Whiteboard::selectedElements, a sequence of object ids
    currentElement,    \* Whiteboard::currentElement, an object id or NULL
    currentColor,      \* Whiteboard::currentColor
    currentThickness,  \* Whiteboard::currentThickness
    currentShape,      \* Whiteboard::currentShape
    isSelecting,       \* Whiteboard::isSelecting
    selectionStart,    \* Whiteboard::selectionStart
    lines,             \* prototype Whiteboard::lines
    shapes,            \* prototype Whiteboard::shapes
    selectionEnd,      \* prototype Whiteboard::selectionEnd
    isDrawingShape,    \* prototype Whiteboard::isDrawingShape
    currentShapePtr,   \* prototype Whiteboard::currentShapePtr
    lastOp,            \* the host operation that produced the state
    calls,             \* the number of host operations so far
    gesture,           \* the drawing gesture under way since startDrawing
    impl               \* which of the two Whiteboard classes the host runs

\* Both Whiteboard classes declare currentColor, currentThickness,
\* currentShape, isSelecting and selectionStart; a specification runs one of
\* the two classes and the members only the other class has stay as they are.
classOnly == <<objs, elements, selectedElements, currentElement>>
protoOnly == <<lines, shapes, selectionEnd, isDrawingShape, currentShapePtr>>
session == <<currentColor, currentThickness, currentShape, isSelecting, selectionStart>>
vars == <<classOnly, protoOnly, session, lastOp, calls, gesture, impl>>

-----------------------------------------------------------------------------
(* Bounds of the model. *)

MaxX == 1
MaxY == 0
MaxCalls == 5
MaxMoves == 2

-----------------------------------------------------------------------------
(* binary32 arithmetic. A value is [m, e], standing for m * 2^e; a finite  *)
(* non-zero value is kept normal, 2^23 <= |m| < 2^24.                      *)

MantBits == 24

RECURSIVE Pow2(_)
Pow2(k) == IF k = 0 THEN 1 ELSE 2 * Pow2(k - 1)

Abs(a) == IF a < 0 THEN -a ELSE a

FZero == [m |-> 0, e |-> 0]
FNaN == [m |-> 0, e |-> 1]

IsNaN(f) == f = FNaN

RECURSIVE BitLen(_)
BitLen(n) == IF n = 0 THEN 0 ELSE 1 + BitLen(n \div 2)

Sign(n) == IF n < 0 THEN -1 ELSE 1

\* Round the exact value n * 2^e (n >= 0; sticky: a non-zero remainder lies
\* below n's last bit) to binary32, to nearest, ties to even. A remainder is
\* only handed in with n of more than MantBits bits.
FRound(n, e, sticky) ==
    IF n = 0 THEN FZero
    ELSE LET k == BitLen(n) - MantBits
         IN  IF k <= 0 THEN [m |-> n * Pow2(-k), e |-> e + k]
             ELSE LET q == n \div Pow2(k)
                      r == n % Pow2(k)
                      half == Pow2(k - 1)
                      up == r > half \/ (r = half /\ (sticky \/ q % 2 = 1))
                      q2 == IF up THEN q + 1 ELSE q
                  IN  IF q2 = Pow2(MantBits)
                      THEN [m |-> Pow2(MantBits - 1), e |-> e + k + 1]
                      ELSE [m |-> q2, e |-> e + k]

FNeg(a) == [m |-> -a.m, e |-> a.e]

\* static_cast<float>(n) of an integer: exact below 2^24, rounded above.
FInt(n) == IF n < 0 THEN FNeg(FRound(-n, 0, FALSE)) ELSE FRound(n, 0, FALSE)

\* The integer a binary32 value of integer value stands for.
FToInt(f) == IF f.e >= 0 THEN f.m * Pow2(f.e) ELSE f.m \div Pow2(-f.e)

\* c += d on a float member holding an integer value: the sum, rounded.
CoordAdd(c, d) == FToInt(FInt(c + d))

Min(a, b) == IF a < b THEN a ELSE b
Max(a, b) == IF a > b THEN a ELSE b

\* a + b in binary32 (finite operands). Operands whose exponents lie within
\* 6 of each other are added exactly; of an operand further below, the
\* part under the sixth guard bit of the greater one is the sticky remainder.
FAdd(a, b) ==
    IF a.m = 0 THEN b
    ELSE IF b.m = 0 THEN a
    ELSE LET hi == IF a.e >= b.e THEN a ELSE b
             lo == IF a.e >= b.e THEN b ELSE a
             d == hi.e - lo.e
         IN  IF d <= 6
             THEN LET n == hi.m * Pow2(d) + lo.m
                      r == FRound(Abs(n), lo.e, FALSE)
                  IN  IF n < 0 THEN FNeg(r) ELSE r
             ELSE LET H == Abs(hi.m) * 64
                      L == IF hi.m < 0 THEN -lo.m ELSE lo.m
                      far == d - 6 > MantBits
                      f == IF far THEN (IF L < 0 THEN -1 ELSE 0)
                           ELSE L \div Pow2(d - 6)
                      sticky == far \/ L % Pow2(d - 6) # 0
                      r == FRound(H + f, hi.e - 6, sticky)
                  IN  IF hi.m < 0 THEN FNeg(r) ELSE r

FSub(a, b) == FAdd(a, FNeg(b))

\* a * a in binary32: the 48-bit product of the mantissa with itself is
\* formed from 12-bit halves, its top 26 bits are rounded and the rest is
\* the sticky remainder.
FSquare(a) ==
    IF a.m = 0 THEN FZero
    ELSE LET m == Abs(a.m)
             hi == m \div 4096
             lo == m % 4096
             cross == 2 * hi * lo
             low == (cross % 4096) * 4096 + lo * lo
             H == hi * hi + (cross \div 4096) + (low \div Pow2(24))
             L == low % Pow2(24)
         IN  FRound(H * 4 + (L \div Pow2(22)), 2 * a.e + 22, L % Pow2(22) # 0)

\* a < b, a <= b on binary32 values; every comparison with a NaN is false.
FKeyLess(a, b) ==
    \* both finite
    IF a.m = 0 THEN b.m > 0
    ELSE IF b.m = 0 THEN a.m < 0
    ELSE IF a.m < 0 /\ b.m > 0 THEN TRUE
    ELSE IF a.m > 0 /\ b.m < 0 THEN FALSE
    ELSE IF a.m > 0 THEN a.e < b.e \/ (a.e = b.e /\ a.m < b.m)
    ELSE a.e > b.e \/ (a.e = b.e /\ a.m < b.m)

FLess(a, b) == ~IsNaN(a) /\ ~IsNaN(b) /\ FKeyLess(a, b)
FLeq(a, b) == ~IsNaN(a) /\ ~IsNaN(b) /\ (a = b \/ FKeyLess(a, b))

ISqrt(n) == CHOOSE q \in 0..n : q * q <= n /\ n < (q + 1) * (q + 1)

\* The digit recurrence of the square root: each step brings down two zero
\* bits of the radicand and yields one more bit of the root.
RECURSIVE SqrtDigits(_, _, _)
SqrtDigits(q, rem, steps) ==
    IF BitLen(q) >= MantBits + 2 THEN [q |-> q, rem |-> rem, steps |-> steps]
    ELSE LET r4 == 4 * rem
             t == 4 * q + 1
         IN  IF r4 >= t THEN SqrtDigits(2 * q + 1, r4 - t, steps + 1)
             ELSE SqrtDigits(2 * q, r4, steps + 1)

\* std::sqrt(float) of an integer value n >= 0: the correctly rounded root.
Sqrtf(n) ==
    IF n = 0 THEN FZero
    ELSE LET q0 == ISqrt(n)
             d == SqrtDigits(q0, n - q0 * q0, 0)
         IN  FRound(d.q, -d.steps, d.rem # 0)

\* The long division n / d.m, one quotient bit a step.
RECURSIVE DivDigits(_, _, _, _)
DivDigits(q, rem, d, steps) ==
    IF BitLen(q) >= MantBits + 2 THEN [q |-> q, rem |-> rem, steps |-> steps]
    ELSE LET r2 == 2 * rem
         IN  IF r2 >= d THEN DivDigits(2 * q + 1, r2 - d, d, steps + 1)
             ELSE DivDigits(2 * q, r2, d, steps + 1)

\* n / d in binary32, n a non-negative integer value below 2^23 and d a
\* non-negative binary32 value: 0/0 is a NaN, n/0 is +infinity.
FInf == [m |-> 1, e |-> 1000]

FDivInt(n, d) ==
    IF d.m = 0 THEN (IF n = 0 THEN FNaN ELSE FInf)
    ELSE IF n = 0 THEN FZero
    ELSE LET r == DivDigits(0, n, d.m, 0)
         IN  FRound(r.q, -r.steps - d.e, r.rem # 0)

-----------------------------------------------------------------------------
(* Values. *)

Xs == 0..MaxX
Ys == 0..MaxY
Points == [x : Xs, y : Ys]
DXs == {-1, 1}
DYs == {0}
ShapeTypes == {"FREEHAND", "RECTANGLE", "CIRCLE", "LINE", "TRIANGLE"}
Colors == {"#000000", "#ff0000"}
Thicknesses == {2, 0}
Radii == {1, 2}

Ids == 1..MaxCalls
NULL == 0

Range(f) == {f[i] : i \in DOMAIN f}

\* struct Point, struct Rect.
Point(x, y) == [x |-> x, y |-> y]
Rect(x, y, w, h) == [x |-> x, y |-> y, width |-> w, height |-> h]

\* A DrawableElement: the base members color, thickness, selected and the
\* members of its variant (points of a Line, bounds of a Rectangle, center
\* and radius of a Circle); the members of the other variants are not there
\* and are held at a fixed value.
Element(kind, color, thickness) ==
    [kind |-> kind, color |-> color, thickness |-> thickness, selected |-> FALSE,
     points |-> << >>, bounds |-> Rect(0, 0, 0, 0),
     center |-> Point(0, 0), radius |-> FZero]

-----------------------------------------------------------------------------
(* Shape variants. *)

\* Line::move
LineMove(o, dx, dy) ==
    [o EXCEPT !.points = [i \in DOMAIN o.points |->
                            Point(CoordAdd(o.points[i].x, dx),
                                  CoordAdd(o.points[i].y, dy))]]

\* RectangleMove with the offset added to the far corner as well, the width
\* and the height standing in for it.
RectangleMoveResizing(o, dx, dy) ==
    [o EXCEPT !.bounds.x = CoordAdd(@, dx), !.bounds.y = CoordAdd(@, dy),
              !.bounds.width = CoordAdd(@, dx), !.bounds.height = CoordAdd(@, dy)]

\* Rectangle::move
RectangleMove(o, dx, dy) ==
    [o EXCEPT !.bounds.x = CoordAdd(@, dx), !.bounds.y = CoordAdd(@, dy)]

\* Circle::move
CircleMove(o, dx, dy) ==
    [o EXCEPT !.center.x = CoordAdd(@, dx), !.center.y = CoordAdd(@, dy)]

\* DrawableElement::move, dispatched on the object's own variant.
Move(o, dx, dy) ==
    CASE o.kind = "Line" -> LineMove(o, dx, dy)
      [] o.kind = "Rectangle" -> RectangleMove(o, dx, dy)
      [] o.kind = "Circle" -> CircleMove(o, dx, dy)
      [] OTHER -> o

SetMin(S) == CHOOSE a \in S : \A b \in S : a <= b
SetMax(S) == CHOOSE a \in S : \A b \in S : a >= b

\* Line::getBounds: the min/max envelope of the points, {0,0,0,0} when empty.
LineGetBounds(o) ==
    IF o.points = << >> THEN Rect(FZero, FZero, FZero, FZero)
    ELSE LET xs == {o.points[i].x : i \in DOMAIN o.points}
             ys == {o.points[i].y : i \in DOMAIN o.points}
         IN  Rect(FInt(SetMin(xs)), FInt(SetMin(ys)),
                  FInt(SetMax(xs) - SetMin(xs)), FInt(SetMax(ys) - SetMin(ys)))

\* Rectangle::getBounds: the stored bounds as they are.
RectangleGetBounds(o) ==
    Rect(FInt(o.bounds.x), FInt(o.bounds.y),
         FInt(o.bounds.width), FInt(o.bounds.height))

\* Circle::getBounds
CircleGetBounds(o) ==
    Rect(FSub(FInt(o.center.x), o.radius), FSub(FInt(o.center.y), o.radius),
         FAdd(o.radius, o.radius), FAdd(o.radius, o.radius))

GetBounds(o) ==
    CASE o.kind = "Line" -> LineGetBounds(o)
      [] o.kind = "Rectangle" -> RectangleGetBounds(o)
      [] o.kind = "Circle" -> CircleGetBounds(o)

HitTolerance == 5

\* LineContainsPoint with the distance taken to the segment between the two
\* points: the foot of the perpendicular has to lie between them.
LineContainsPointOnSegment(o, x, y) ==
    \E i \in 2..Len(o.points) :
        LET x1 == o.points[i - 1].x
            y1 == o.points[i - 1].y
            x2 == o.points[i].x
            y2 == o.points[i].y
            num == Abs((y2 - y1) * x - (x2 - x1) * y + x2 * y1 - y2 * x1)
            den == Sqrtf((y2 - y1) * (y2 - y1) + (x2 - x1) * (x2 - x1))
            dot == (x - x1) * (x2 - x1) + (y - y1) * (y2 - y1)
        IN  /\ FLess(FDivInt(num, den), FInt(HitTolerance))
            /\ 0 <= dot
            /\ dot <= (y2 - y1) * (y2 - y1) + (x2 - x1) * (x2 - x1)

\* Line::containsPoint: some consecutive pair of points whose line passes
\* at a distance below 5 (0/0, a NaN, for a pair of equal points).
LineContainsPoint(o, x, y) ==
    \E i \in 2..Len(o.points) :
        LET x1 == o.points[i - 1].x
            y1 == o.points[i - 1].y
            x2 == o.points[i].x
            y2 == o.points[i].y
            num == Abs((y2 - y1) * x - (x2 - x1) * y + x2 * y1 - y2 * x1)
            den == Sqrtf((y2 - y1) * (y2 - y1) + (x2 - x1) * (x2 - x1))
        IN  FLess(FDivInt(num, den), FInt(HitTolerance))

\* Rectangle::containsPoint
RectangleContainsPoint(o, x, y) ==
    /\ x >= o.bounds.x
    /\ x <= o.bounds.x + o.bounds.width
    /\ y >= o.bounds.y
    /\ y <= o.bounds.y + o.bounds.height

\* Circle::containsPoint
CircleContainsPoint(o, x, y) ==
    LET dx == x - o.center.x
        dy == y - o.center.y
    IN  FLeq(FInt(dx * dx + dy * dy), FSquare(o.radius))

ContainsPoint(o, x, y) ==
    CASE o.kind = "Line" -> LineContainsPoint(o, x, y)
      [] o.kind = "Rectangle" -> RectangleContainsPoint(o, x, y)
      [] o.kind = "Circle" -> CircleContainsPoint(o, x, y)

-----------------------------------------------------------------------------
(* The class-based Whiteboard (src/wasm/whiteboard.cpp). *)

\* The record of a host call: its name and its two coordinates (0 when the
\* operation takes none), the radius of an erase, whether the call took
\* shapes or stroke points away, whether a shape of the collection had its
\* selected flag on when the call was made, and, for an erase, whether it
\* repeats the call before it (1 when that call took nothing away, 2 when
\* it did, 0 when the call before was another one).
Op(name, x, y) == [name |-> name, x |-> x, y |-> y, r |-> 0, removed |-> FALSE,
                   hadSel |-> FALSE, again |-> 0]

\* No gesture under way.
NoGesture == [active |-> FALSE, done |-> FALSE, tool |-> "FREEHAND",
              len0 |-> 0, pts |-> << >>]

\* std::shared_ptr: an object lives as long as elements, selectedElements or
\* currentElement refers to it.
Collect(o, els, sel, cur) ==
    [i \in DOMAIN o \cap (Range(els) \cup Range(sel) \cup {cur}) |-> o[i]]

\* std::make_shared: the new object gets an id no live object has.
FreeId == SetMin(Ids \ DOMAIN objs)

\* NewElement with the constructor's color and thickness in place of the
\* current ones.
NewElementUnstyled(x, y) ==
    CASE currentShape = "FREEHAND" ->
           [Element("Line", "#000000", 2) EXCEPT !.points = <<Point(x, y)>>]
      [] currentShape = "RECTANGLE" ->
           [Element("Rectangle", "#000000", 2) EXCEPT !.bounds = Rect(x, y, 0, 0)]
      [] currentShape = "CIRCLE" ->
           [Element("Circle", "#000000", 2)
               EXCEPT !.center = Point(x, y), !.radius = FZero]

\* The object startDrawing builds for the tool (lines 142-166).
NewElement(x, y) ==
    CASE currentShape = "FREEHAND" ->
           [Element("Line", currentColor, currentThickness)
               EXCEPT !.points = <<Point(x, y)>>]
      [] currentShape = "RECTANGLE" ->
           [Element("Rectangle", currentColor, currentThickness)
               EXCEPT !.bounds = Rect(x, y, 0, 0)]
      [] currentShape = "CIRCLE" ->
           [Element("Circle", currentColor, currentThickness)
               EXCEPT !.center = Point(x, y), !.radius = FZero]

\* InitEffect with the in-progress shape left in place.
InitKeepsCurrent ==
    /\ elements' = << >>
    /\ selectedElements' = << >>
    /\ isSelecting' = FALSE
    /\ objs' = Collect(objs, << >>, << >>, currentElement)
    /\ UNCHANGED <<currentElement, currentColor, currentThickness, currentShape,
                   selectionStart>>

\* Whiteboard::init
InitEffect ==
    /\ elements' = << >>
    /\ selectedElements' = << >>
    /\ currentElement' = NULL
    /\ isSelecting' = FALSE
    /\ objs' = << >>
    /\ UNCHANGED <<currentColor, currentThickness, currentShape, selectionStart>>

\* ClearSelectionEffect with the selected view emptied and the flags left
\* as they are.
ClearSelectionViewOnly ==
    /\ selectedElements' = << >>
    /\ objs' = Collect(objs, elements, << >>, currentElement)

\* Whiteboard::clearSelection: the flags of the shapes in elements, and the
\* selected view.
ClearSelectionEffect ==
    /\ selectedElements' = << >>
    /\ objs' = Collect([i \in DOMAIN objs |-> IF i \in Range(elements)
                                      THEN [objs[i] EXCEPT !.selected = FALSE]
                                      ELSE objs[i]],
                       elements, << >>, currentElement)

\* Whiteboard::startSelection
StartSelectionEffect(x, y) ==
    /\ selectionStart' = Point(x, y)
    /\ ClearSelectionEffect
    /\ UNCHANGED <<elements, currentElement, currentColor, currentThickness,
                   currentShape, isSelecting>>

\* The test of updateSelection (lines 251-254) on a shape's bounds.
Intersects(b, left, top, right, bottom) ==
    ~ \/ FLess(FInt(right), b.x)
      \/ FLess(FAdd(b.x, b.width), FInt(left))
      \/ FLess(FInt(bottom), b.y)
      \/ FLess(FAdd(b.y, b.height), FInt(top))

\* Whether updateSelection(x, y) selects object o.
Hit(o, x, y) ==
    Intersects(GetBounds(o),
               Min(x, selectionStart.x), Min(y, selectionStart.y),
               Max(x, selectionStart.x), Max(y, selectionStart.y))

\* Whiteboard::updateSelection: every entry of elements gets its flag and,
\* when it intersects, one more entry in selectedElements.
UpdateSelectionEffect(x, y) ==
    /\ objs' = [i \in DOMAIN objs |-> IF i \in Range(elements)
                              THEN [objs[i] EXCEPT !.selected = Hit(objs[i], x, y)]
                              ELSE objs[i]]
    /\ selectedElements' =
           selectedElements \o SelectSeq(elements, LAMBDA id : Hit(objs[id], x, y))
    /\ UNCHANGED <<elements, currentElement, currentColor, currentThickness,
                   currentShape, isSelecting, selectionStart>>

\* EndSelectionEffect with the selection given up as well.
EndSelectionClearing ==
    /\ isSelecting' = FALSE
    /\ ClearSelectionEffect
    /\ UNCHANGED <<elements, currentElement, currentColor, currentThickness,
                   currentShape, selectionStart>>

\* Whiteboard::endSelection
EndSelectionEffect ==
    /\ isSelecting' = FALSE
    /\ UNCHANGED <<objs, elements, selectedElements, currentElement, currentColor,
                   currentThickness, currentShape, selectionStart>>

\* continueDrawing casts currentElement to the variant of the current tool
\* (static_pointer_cast, lines 186, 191, 199). When the object is of another
\* variant the write lands in that object's own members and the behaviour is
\* undefined: the object's geometry may hold any value afterwards.
Miscast(o) ==
    CASE o.kind = "Line" -> {[o EXCEPT !.points = p] : p \in {o.points, << >>}}
      [] o.kind = "Rectangle" ->
           {[o EXCEPT !.bounds.width = w, !.bounds.height = h] :
               w \in -MaxX..MaxX, h \in -MaxY..MaxY}
      [] o.kind = "Circle" ->
           {[o EXCEPT !.radius = FInt(r)] : r \in -MaxX..MaxX}

\* Continued with a stroke point equal to the last one dropped.
ContinuedSkippingRepeats(o, x, y) ==
    IF o.kind = "Line" /\ currentShape = "FREEHAND"
    THEN {IF o.points # << >> /\ o.points[Len(o.points)] = Point(x, y)
          THEN o ELSE [o EXCEPT !.points = Append(@, Point(x, y))]}
    ELSE {o}

\* Continued with the rectangle's anchor moved to the lesser corner.
ContinuedNormalizing(o, x, y) ==
    IF o.kind = "Rectangle" /\ currentShape = "RECTANGLE"
    THEN {[o EXCEPT !.bounds = Rect(Min(x, o.bounds.x), Min(y, o.bounds.y),
                                    Abs(x - o.bounds.x), Abs(y - o.bounds.y))]}
    ELSE {o}

\* Continued with a radius that never shrinks.
ContinuedGrowing(o, x, y) ==
    IF o.kind = "Circle" /\ currentShape = "CIRCLE"
    THEN LET dx == x - o.center.x
             dy == y - o.center.y
             r == Sqrtf(dx * dx + dy * dy)
         IN  {[o EXCEPT !.radius = IF FLess(r, o.radius) THEN o.radius ELSE r]}
    ELSE {o}

\* The objects continueDrawing(x, y) may leave in place of the in-progress
\* object o (lines 184-207).
Continued(o, x, y) ==
    CASE currentShape = "FREEHAND" ->
           IF o.kind = "Line"
           THEN {[o EXCEPT !.points = Append(@, Point(x, y))]}
           ELSE Miscast(o)
      [] currentShape = "RECTANGLE" ->
           IF o.kind = "Rectangle"
           THEN {[o EXCEPT !.bounds.width = x - o.bounds.x,
                           !.bounds.height = y - o.bounds.y]}
           ELSE Miscast(o)
      [] currentShape = "CIRCLE" ->
           IF o.kind = "Circle"
           THEN LET dx == x - o.center.x
                    dy == y - o.center.y
                IN  {[o EXCEPT !.radius = Sqrtf(dx * dx + dy * dy)]}
           ELSE Miscast(o)
      [] OTHER -> {o}

\* The gesture record after a continueDrawing(x, y).
GestureContinued(x, y) ==
    IF gesture.active /\ ~gesture.done
    THEN [gesture EXCEPT !.pts = Append(@, Point(x, y))]
    ELSE NoGesture

\* Whiteboard::startDrawing
StartDrawing(x, y) ==
    /\ UNCHANGED protoOnly
    /\ IF isSelecting
       THEN StartSelectionEffect(x, y)
       ELSE /\ currentElement' =
                   IF currentShape \in {"FREEHAND", "RECTANGLE", "CIRCLE"}
                   THEN FreeId ELSE currentElement
            /\ elements' = IF currentElement' # NULL
                           THEN Append(elements, currentElement')
                           ELSE elements
            /\ objs' = Collect(IF currentShape \in {"FREEHAND", "RECTANGLE", "CIRCLE"}
                               THEN objs @@ (FreeId :> NewElement(x, y))
                               ELSE objs,
                               elements', selectedElements, currentElement')
            /\ UNCHANGED <<selectedElements, session>>

\* ContinueDrawing with the last shape of the collection taken when no shape
\* is in progress.
ContinueDrawingOnLast(x, y) ==
    /\ UNCHANGED protoOnly
    /\ LET target == IF currentElement # NULL THEN currentElement
                     ELSE IF elements # << >> THEN elements[Len(elements)]
                     ELSE NULL
       IN  IF target = NULL
           THEN UNCHANGED <<classOnly, session>>
           ELSE /\ \E o \in Continued(objs[target], x, y) :
                       objs' = [objs EXCEPT ![target] = o]
                /\ UNCHANGED <<elements, selectedElements, currentElement, session>>

\* Whiteboard::continueDrawing
ContinueDrawing(x, y) ==
    /\ UNCHANGED protoOnly
    /\ IF isSelecting
       THEN UpdateSelectionEffect(x, y)
       ELSE IF currentElement = NULL
       THEN UNCHANGED <<classOnly, session>>
       ELSE /\ \E o \in Continued(objs[currentElement], x, y) :
                   objs' = [objs EXCEPT ![currentElement] = o]
            /\ UNCHANGED <<elements, selectedElements, currentElement, session>>

\* Whiteboard::endDrawing
EndDrawing ==
    /\ UNCHANGED protoOnly
    /\ IF isSelecting
       THEN EndSelectionEffect
       ELSE /\ currentElement' = NULL
            /\ objs' = Collect(objs, elements, selectedElements, NULL)
            /\ UNCHANGED <<elements, selectedElements, session>>

\* Whiteboard::setShapeType
SetShapeType(type) ==
    /\ currentShape' = type
    /\ ClearSelectionEffect
    /\ UNCHANGED <<elements, currentElement, currentColor, currentThickness,
                   isSelecting, selectionStart, protoOnly>>

\* Whiteboard::setColor
SetColor(color) ==
    /\ currentColor' = color
    /\ UNCHANGED <<classOnly, currentThickness, currentShape, isSelecting,
                   selectionStart, protoOnly>>

\* Whiteboard::setThickness
SetThickness(thickness) ==
    /\ currentThickness' = thickness
    /\ UNCHANGED <<classOnly, currentColor, currentShape, isSelecting,
                   selectionStart, protoOnly>>

\* Whiteboard::startSelection
StartSelection(x, y) ==
    /\ StartSelectionEffect(x, y)
    /\ UNCHANGED protoOnly

\* Whiteboard::updateSelection
UpdateSelection(x, y) ==
    /\ UpdateSelectionEffect(x, y)
    /\ UNCHANGED protoOnly

\* Whiteboard::endSelection
EndSelection ==
    /\ EndSelectionEffect
    /\ UNCHANGED protoOnly

\* The heap after move(dx, dy) on the entries sel[i..] of the selected view,
\* one call an entry, in order.
RECURSIVE MoveEach(_, _, _, _, _)
MoveEach(o, sel, i, dx, dy) ==
    IF i > Len(sel) THEN o
    ELSE MoveEach([o EXCEPT ![sel[i]] = Move(@, dx, dy)], sel, i + 1, dx, dy)

\* Whiteboard::moveSelected
MoveSelected(dx, dy) ==
    /\ objs' = MoveEach(objs, selectedElements, 1, dx, dy)
    /\ UNCHANGED <<elements, selectedElements, currentElement, session, protoOnly>>

\* DeleteSelected with only the first selected entry removed.
DeleteSelectedFirst ==
    /\ elements' =
           LET hit == {i \in 1..Len(elements) : objs[elements[i]].selected}
           IN  IF hit = {} THEN elements
               ELSE LET k == SetMin(hit)
                    IN  SubSeq(elements, 1, k - 1) \o SubSeq(elements, k + 1, Len(elements))
    /\ selectedElements' = << >>
    /\ objs' = Collect(objs, elements', << >>, currentElement)
    /\ UNCHANGED <<currentElement, session, protoOnly>>

\* Whiteboard::deleteSelected
DeleteSelected ==
    /\ elements' = SelectSeq(elements, LAMBDA id : ~objs[id].selected)
    /\ selectedElements' = << >>
    /\ objs' = Collect(objs, elements', << >>, currentElement)
    /\ UNCHANGED <<currentElement, session, protoOnly>>

\* Whiteboard::clearSelection
ClearSelection ==
    /\ ClearSelectionEffect
    /\ UNCHANGED <<elements, currentElement, session, protoOnly>>

\* Whiteboard::clear
Clear ==
    /\ InitEffect
    /\ UNCHANGED protoOnly

\* Erase with the hit test made on the shape's bounds.
EraseByBounds(x, y, radius) ==
    /\ elements' = SelectSeq(elements,
                             LAMBDA id : ~Intersects(GetBounds(objs[id]), x, y, x, y))
    /\ objs' = Collect(objs, elements', selectedElements, currentElement)
    /\ UNCHANGED <<selectedElements, currentElement, session, protoOnly>>

\* Erase with only the first shape under the point removed.
EraseFirstHit(x, y, radius) ==
    /\ elements' =
           LET hit == {i \in 1..Len(elements) : ContainsPoint(objs[elements[i]], x, y)}
           IN  IF hit = {} THEN elements
               ELSE LET k == SetMin(hit)
                    IN  SubSeq(elements, 1, k - 1) \o SubSeq(elements, k + 1, Len(elements))
    /\ objs' = Collect(objs, elements', selectedElements, currentElement)
    /\ UNCHANGED <<selectedElements, currentElement, session, protoOnly>>

\* Whiteboard::erase; the radius is not read.
Erase(x, y, radius) ==
    /\ elements' = SelectSeq(elements, LAMBDA id : ~ContainsPoint(objs[id], x, y))
    /\ objs' = Collect(objs, elements', selectedElements, currentElement)
    /\ UNCHANGED <<selectedElements, currentElement, session, protoOnly>>

-----------------------------------------------------------------------------
(* The specification of the class-based Whiteboard. *)

\* Whiteboard::Whiteboard. selectionStart has no initializer: it holds an
\* indeterminate value until the first startSelection.
Init ==
    /\ objs = << >>
    /\ elements = << >>
    /\ selectedElements = << >>
    /\ currentElement = NULL
    /\ currentColor = "#000000"
    /\ currentThickness = 2
    /\ currentShape = "FREEHAND"
    /\ isSelecting = FALSE
    /\ selectionStart \in Points
    /\ lines = << >>
    /\ shapes = << >>
    /\ selectionEnd = Point(0, 0)
    /\ isDrawingShape = FALSE
    /\ currentShapePtr = NULL
    /\ lastOp = Op("Whiteboard", 0, 0)
    /\ calls = 0
    /\ gesture = NoGesture
    /\ impl = "class"

\* The number of points of the strokes ls.
RECURSIVE PointCount(_)
PointCount(ls) ==
    IF ls = << >> THEN 0 ELSE Len(Head(ls).points) + PointCount(Tail(ls))

\* What a whiteboard holds: collection entries, prototype shapes and
\* prototype stroke points.
SizeOf(els, shs, ls) == Len(els) + Len(shs) + PointCount(ls)

\* lastOp and calls after the host's call.
DidWith(name, x, y, r) ==
    /\ lastOp' =
           [Op(name, x, y) EXCEPT
               !.r = r,
               !.removed = SizeOf(elements', shapes', lines')
                              < SizeOf(elements, shapes, lines),
               !.hadSel = \E id \in Range(elements) : objs[id].selected,
               !.again = IF name = "erase" /\ lastOp.name = name /\ lastOp.x = x
                             /\ lastOp.y = y /\ lastOp.r = r
                          THEN (IF lastOp.removed THEN 2 ELSE 1)
                          ELSE 0]
    /\ calls' = calls + 1
    /\ impl' = impl

Did(name, x, y) == DidWith(name, x, y, 0)

\* The host may make one more call on the class-based Whiteboard, on the
\* prototype Whiteboard.
ClassCall == impl = "class" /\ calls < MaxCalls
ProtoCall == impl = "proto" /\ calls < MaxCalls

\* The host's calls through the bindings (lines 311-328), MaxCalls of them
\* at most.
CallInit ==
    /\ ClassCall /\ UNCHANGED gesture
    /\ InitEffect /\ UNCHANGED protoOnly /\ Did("init", 0, 0)

CallStartDrawing ==
    /\ ClassCall /\ UNCHANGED gesture
    /\ \E x \in Xs, y \in Ys : StartDrawing(x, y) /\ Did("startDrawing", x, y)

CallContinueDrawing ==
    /\ ClassCall /\ UNCHANGED gesture
    /\ \E x \in Xs, y \in Ys : ContinueDrawing(x, y) /\ Did("continueDrawing", x, y)

CallEndDrawing ==
    /\ ClassCall /\ UNCHANGED gesture
    /\ EndDrawing /\ Did("endDrawing", 0, 0)

CallSetShapeType ==
    /\ ClassCall /\ UNCHANGED gesture
    /\ \E type \in ShapeTypes : SetShapeType(type) /\ Did("setShapeType", 0, 0)

CallSetColor ==
    /\ ClassCall /\ UNCHANGED gesture
    /\ \E color \in Colors : SetColor(color) /\ Did("setColor", 0, 0)

CallSetThickness ==
    /\ ClassCall /\ UNCHANGED gesture
    /\ \E thickness \in Thicknesses :
          SetThickness(thickness) /\ Did("setThickness", 0, 0)

CallStartSelection ==
    /\ ClassCall /\ UNCHANGED gesture
    /\ \E x \in Xs, y \in Ys : StartSelection(x, y) /\ Did("startSelection", x, y)

CallUpdateSelection ==
    /\ ClassCall /\ UNCHANGED gesture
    /\ \E x \in Xs, y \in Ys : UpdateSelection(x, y) /\ Did("updateSelection", x, y)

CallEndSelection ==
    /\ ClassCall /\ UNCHANGED gesture
    /\ EndSelection /\ Did("endSelection", 0, 0)

CallMoveSelected ==
    /\ ClassCall /\ UNCHANGED gesture
    /\ \E dx \in DXs, dy \in DYs : MoveSelected(dx, dy) /\ Did("moveSelected", dx, dy)

CallDeleteSelected ==
    /\ ClassCall /\ UNCHANGED gesture
    /\ DeleteSelected /\ Did("deleteSelected", 0, 0)

CallClearSelection ==
    /\ ClassCall /\ UNCHANGED gesture
    /\ ClearSelection /\ Did("clearSelection", 0, 0)

CallClear ==
    /\ ClassCall /\ UNCHANGED gesture
    /\ Clear /\ Did("clear", 0, 0)

CallErase ==
    /\ ClassCall /\ UNCHANGED gesture
    /\ \E x \in Xs, y \in Ys, radius \in Radii : Erase(x, y, radius) /\ DidWith("erase", x, y, radius)

Next ==
    \/ CallInit
    \/ CallStartDrawing
    \/ CallContinueDrawing
    \/ CallEndDrawing
    \/ CallSetShapeType
    \/ CallSetColor
    \/ CallSetThickness
    \/ CallStartSelection
    \/ CallUpdateSelection
    \/ CallEndSelection
    \/ CallMoveSelected
    \/ CallDeleteSelected
    \/ CallClearSelection
    \/ CallClear
    \/ CallErase

Spec == Init /\ [][Next]_vars

-----------------------------------------------------------------------------
(* The specification of drawing gestures: the drawing calls and the tool   *)
(* change of the class-based Whiteboard, on points of the plane that give  *)
(* exact and inexact radii, and the record of the gesture under way.       *)

DrawPoints == {Point(0, 0), Point(1, 1), Point(3, 4)}

\* The gesture record after startDrawing(x, y).
GestureStarted(x, y) ==
    IF isSelecting THEN NoGesture
    ELSE [active |-> TRUE, done |-> FALSE, tool |-> currentShape,
          len0 |-> Len(elements), pts |-> <<Point(x, y)>>]

\* The gesture record after endDrawing().
GestureEnded ==
    IF gesture.active /\ ~gesture.done
    THEN [gesture EXCEPT !.done = TRUE] ELSE NoGesture

GestureStartDrawing ==
    /\ ClassCall
    /\ \E p \in DrawPoints :
          /\ StartDrawing(p.x, p.y)
          /\ Did("startDrawing", p.x, p.y)
          /\ gesture' = GestureStarted(p.x, p.y)

GestureContinueDrawing ==
    /\ ClassCall
    /\ \E p \in DrawPoints :
          /\ ContinueDrawing(p.x, p.y)
          /\ Did("continueDrawing", p.x, p.y)
          /\ gesture' = GestureContinued(p.x, p.y)

GestureEndDrawing ==
    /\ ClassCall
    /\ EndDrawing /\ Did("endDrawing", 0, 0) /\ gesture' = GestureEnded

\* A call that is no part of a gesture ends the gesture under way.
GestureSetShapeType ==
    /\ ClassCall /\ gesture' = NoGesture
    /\ \E type \in ShapeTypes : SetShapeType(type) /\ Did("setShapeType", 0, 0)

GestureSetColor ==
    /\ ClassCall /\ gesture' = NoGesture
    /\ \E color \in Colors : SetColor(color) /\ Did("setColor", 0, 0)

GestureSetThickness ==
    /\ ClassCall /\ gesture' = NoGesture
    /\ \E thickness \in Thicknesses :
          SetThickness(thickness) /\ Did("setThickness", 0, 0)

GestureClear ==
    /\ ClassCall /\ gesture' = NoGesture
    /\ Clear /\ Did("clear", 0, 0)

NextDraw ==
    \/ GestureStartDrawing
    \/ GestureContinueDrawing
    \/ GestureEndDrawing
    \/ GestureSetShapeType
    \/ GestureSetColor
    \/ GestureSetThickness
    \/ GestureClear

SpecDraw == Init /\ [][NextDraw]_vars

-----------------------------------------------------------------------------
(* The prototype Whiteboard (wasm/whiteboard.cpp): strokes in `lines`,      *)
(* shapes in `shapes`, both held by value. Coordinates are the integers    *)
(* the host passes; every sum and half taken of them is exact in binary32. *)

\* struct Line, struct Shape.
ProtoLine(color, thickness, points) ==
    [points |-> points, color |-> color, thickness |-> thickness, selected |-> FALSE]

ProtoShape(type, color, thickness, start, end) ==
    [start |-> start, end |-> end, type |-> type, color |-> color,
     thickness |-> thickness, selected |-> FALSE]

\* The default width and height startDrawing gives a shape (lines 88-101).
DefaultSize(type) == IF type = "CIRCLE" THEN 80 ELSE 100

\* A drawing is under way: startDrawing has been called and endDrawing has
\* not been called since.
Drawing == [NoGesture EXCEPT !.active = TRUE]

\* Whiteboard::init
ProtoInit ==
    /\ lines' = << >>
    /\ shapes' = << >>
    /\ isSelecting' = FALSE
    /\ isDrawingShape' = FALSE
    /\ currentShapePtr' = NULL
    /\ UNCHANGED <<currentColor, currentThickness, currentShape, selectionStart,
                   selectionEnd, classOnly>>

\* Whiteboard::startDrawing. currentShapePtr is the place of the new shape
\* in shapes.
ProtoStartDrawing(x, y) ==
    /\ IF currentShape = "FREEHAND"
       THEN /\ lines' = Append(lines, ProtoLine(currentColor, currentThickness,
                                                <<Point(x, y)>>))
            /\ UNCHANGED <<shapes, currentShapePtr>>
       ELSE LET half == DefaultSize(currentShape) \div 2
            IN  /\ shapes' = Append(shapes,
                                    ProtoShape(currentShape, currentColor,
                                               currentThickness,
                                               Point(x - half, y - half),
                                               Point(x + half, y + half)))
                /\ currentShapePtr' = Len(shapes')
                /\ UNCHANGED lines
    /\ UNCHANGED <<session, selectionEnd, isDrawingShape, classOnly>>

\* Whiteboard::continueDrawing
ProtoContinueDrawing(x, y) ==
    /\ IF currentShape = "FREEHAND" /\ lines # << >>
       THEN lines' = [lines EXCEPT ![Len(lines)].points = Append(@, Point(x, y))]
       ELSE UNCHANGED lines
    /\ UNCHANGED <<shapes, session, selectionEnd, isDrawingShape, currentShapePtr,
                   classOnly>>

\* Whiteboard::endDrawing
ProtoEndDrawing ==
    /\ isDrawingShape' = FALSE
    /\ currentShapePtr' = NULL
    /\ UNCHANGED <<lines, shapes, session, selectionEnd, classOnly>>

\* Whiteboard::startSelection
ProtoStartSelection(x, y) ==
    /\ isSelecting' = TRUE
    /\ selectionStart' = Point(x, y)
    /\ selectionEnd' = Point(x, y)
    /\ UNCHANGED <<lines, shapes, currentColor, currentThickness, currentShape,
                   isDrawingShape, currentShapePtr, classOnly>>

\* The tests of updateSelection: a stroke with a point inside the rubber
\* band (lines 140-146), a shape wholly inside it (lines 152-160).
LineInside(l, left, top, right, bottom) ==
    \E i \in DOMAIN l.points :
        /\ l.points[i].x >= left /\ l.points[i].x <= right
        /\ l.points[i].y >= top /\ l.points[i].y <= bottom

ShapeInside(sh, left, top, right, bottom) ==
    /\ Min(sh.start.x, sh.end.x) >= left
    /\ Max(sh.start.x, sh.end.x) <= right
    /\ Min(sh.start.y, sh.end.y) >= top
    /\ Max(sh.start.y, sh.end.y) <= bottom

\* Whiteboard::updateSelection
ProtoUpdateSelection(x, y) ==
    /\ IF isSelecting
       THEN LET left == Min(selectionStart.x, x)
                right == Max(selectionStart.x, x)
                top == Min(selectionStart.y, y)
                bottom == Max(selectionStart.y, y)
            IN  /\ selectionEnd' = Point(x, y)
                /\ lines' = [i \in DOMAIN lines |->
                               [lines[i] EXCEPT !.selected =
                                   LineInside(lines[i], left, top, right, bottom)]]
                /\ shapes' = [i \in DOMAIN shapes |->
                                [shapes[i] EXCEPT !.selected =
                                    ShapeInside(shapes[i], left, top, right, bottom)]]
       ELSE UNCHANGED <<selectionEnd, lines, shapes>>
    /\ UNCHANGED <<session, isDrawingShape, currentShapePtr, classOnly>>

\* Whiteboard::endSelection
ProtoEndSelection ==
    /\ isSelecting' = FALSE
    /\ UNCHANGED <<lines, shapes, currentColor, currentThickness, currentShape,
                   selectionStart, selectionEnd, isDrawingShape, currentShapePtr,
                   classOnly>>

\* Whiteboard::clearSelection
ProtoClearSelection ==
    /\ lines' = [i \in DOMAIN lines |-> [lines[i] EXCEPT !.selected = FALSE]]
    /\ shapes' = [i \in DOMAIN shapes |-> [shapes[i] EXCEPT !.selected = FALSE]]
    /\ isSelecting' = FALSE
    /\ UNCHANGED <<currentColor, currentThickness, currentShape, selectionStart,
                   selectionEnd, isDrawingShape, currentShapePtr, classOnly>>

\* Whiteboard::moveSelected
ProtoMoveSelected(dx, dy) ==
    /\ lines' = [i \in DOMAIN lines |->
                   IF lines[i].selected
                   THEN [lines[i] EXCEPT !.points =
                            [k \in DOMAIN lines[i].points |->
                                Point(CoordAdd(lines[i].points[k].x, dx),
                                      CoordAdd(lines[i].points[k].y, dy))]]
                   ELSE lines[i]]
    /\ shapes' = [i \in DOMAIN shapes |->
                    IF shapes[i].selected
                    THEN [shapes[i] EXCEPT
                             !.start = Point(CoordAdd(@.x, dx), CoordAdd(@.y, dy)),
                             !.end = Point(CoordAdd(@.x, dx), CoordAdd(@.y, dy))]
                    ELSE shapes[i]]
    /\ UNCHANGED <<session, selectionEnd, isDrawingShape, currentShapePtr, classOnly>>

\* Whiteboard::deleteSelected
ProtoDeleteSelected ==
    /\ lines' = SelectSeq(lines, LAMBDA l : ~l.selected)
    /\ shapes' = SelectSeq(shapes, LAMBDA sh : ~sh.selected)
    /\ UNCHANGED <<session, selectionEnd, isDrawingShape, currentShapePtr, classOnly>>

\* Whiteboard::setColor. The shape under currentShapePtr is written when a
\* shape is being drawn; a pointer past the end of shapes dangles and the
\* write may land on any shape or on none.
ProtoSetColor(color) ==
    /\ currentColor' = color
    /\ IF isDrawingShape /\ currentShapePtr # NULL
       THEN IF currentShapePtr \in DOMAIN shapes
            THEN shapes' = [shapes EXCEPT ![currentShapePtr].color = color]
            ELSE shapes' \in {shapes} \cup
                             {[shapes EXCEPT ![i].color = color] : i \in DOMAIN shapes}
       ELSE UNCHANGED shapes
    /\ UNCHANGED <<lines, currentThickness, currentShape, isSelecting, selectionStart,
                   selectionEnd, isDrawingShape, currentShapePtr, classOnly>>

\* Whiteboard::setThickness
ProtoSetThickness(thickness) ==
    /\ currentThickness' = thickness
    /\ UNCHANGED <<lines, shapes, currentColor, currentShape, isSelecting,
                   selectionStart, selectionEnd, isDrawingShape, currentShapePtr,
                   classOnly>>

\* Whiteboard::setShapeType
ProtoSetShapeType(type) ==
    /\ currentShape' = type
    /\ UNCHANGED <<lines, shapes, currentColor, currentThickness, isSelecting,
                   selectionStart, selectionEnd, isDrawingShape, currentShapePtr,
                   classOnly>>

\* Whiteboard::clear
ProtoClear ==
    /\ lines' = << >>
    /\ shapes' = << >>
    /\ UNCHANGED <<session, selectionEnd, isDrawingShape, currentShapePtr, classOnly>>

\* The test of erase: std::sqrt(dx * dx + dy * dy) < radius.
Within(px, py, x, y, radius) ==
    FLess(Sqrtf((x - px) * (x - px) + (y - py) * (y - py)), FInt(radius))

\* A stroke after erase(x, y, radius) has gone over its points.
ErasedLine(l, x, y, radius) ==
    [l EXCEPT !.points = SelectSeq(@, LAMBDA p : ~Within(p.x, p.y, x, y, radius))]

\* Whiteboard::erase: the points within the radius leave their strokes, a
\* stroke emptied by it leaves lines, and a shape whose centre is within the
\* radius leaves shapes.
ProtoErase(x, y, radius) ==
    /\ lines' =
           LET swept == [i \in DOMAIN lines |-> ErasedLine(lines[i], x, y, radius)]
               kept == {i \in DOMAIN lines :
                           ~(swept[i].points = << >> /\ swept[i] # lines[i])}
               RECURSIVE Keep(_)
               Keep(i) == IF i > Len(lines) THEN << >>
                          ELSE (IF i \in kept THEN <<swept[i]>> ELSE << >>)
                               \o Keep(i + 1)
           IN  Keep(1)
    /\ shapes' = SelectSeq(shapes,
                           LAMBDA sh : ~Within((sh.start.x + sh.end.x) \div 2,
                                               (sh.start.y + sh.end.y) \div 2,
                                               x, y, radius))
    /\ UNCHANGED <<session, selectionEnd, isDrawingShape, currentShapePtr, classOnly>>

-----------------------------------------------------------------------------
(* The specification of the prototype Whiteboard. *)

\* Whiteboard::Whiteboard. selectionStart and selectionEnd have no
\* initializer.
InitP ==
    /\ lines = << >>
    /\ shapes = << >>
    /\ currentColor = "#000000"
    /\ currentThickness = 2
    /\ selectionStart \in Points
    /\ selectionEnd \in Points
    /\ isSelecting = FALSE
    /\ isDrawingShape = FALSE
    /\ currentShape = "FREEHAND"
    /\ currentShapePtr = NULL
    /\ objs = << >>
    /\ elements = << >>
    /\ selectedElements = << >>
    /\ currentElement = NULL
    /\ lastOp = Op("Whiteboard", 0, 0)
    /\ calls = 0
    /\ gesture = NoGesture
    /\ impl = "proto"

\* The host's calls through the bindings (lines 409-427).
PCallInit ==
    /\ ProtoCall /\ gesture' = NoGesture
    /\ ProtoInit /\ Did("init", 0, 0)

PCallStartDrawing ==
    /\ ProtoCall /\ gesture' = Drawing
    /\ \E x \in Xs, y \in Ys : ProtoStartDrawing(x, y) /\ Did("startDrawing", x, y)

PCallContinueDrawing ==
    /\ ProtoCall /\ UNCHANGED gesture
    /\ \E x \in Xs, y \in Ys :
          ProtoContinueDrawing(x, y) /\ Did("continueDrawing", x, y)

PCallEndDrawing ==
    /\ ProtoCall /\ gesture' = NoGesture
    /\ ProtoEndDrawing /\ Did("endDrawing", 0, 0)

PCallStartSelection ==
    /\ ProtoCall /\ UNCHANGED gesture
    /\ \E x \in Xs, y \in Ys :
          ProtoStartSelection(x, y) /\ Did("startSelection", x, y)

PCallUpdateSelection ==
    /\ ProtoCall /\ UNCHANGED gesture
    /\ \E x \in Xs, y \in Ys :
          ProtoUpdateSelection(x, y) /\ Did("updateSelection", x, y)

PCallEndSelection ==
    /\ ProtoCall /\ UNCHANGED gesture
    /\ ProtoEndSelection /\ Did("endSelection", 0, 0)

PCallClearSelection ==
    /\ ProtoCall /\ UNCHANGED gesture
    /\ ProtoClearSelection /\ Did("clearSelection", 0, 0)

PCallMoveSelected ==
    /\ ProtoCall /\ UNCHANGED gesture
    /\ \E dx \in DXs, dy \in DYs :
          ProtoMoveSelected(dx, dy) /\ Did("moveSelected", dx, dy)

PCallDeleteSelected ==
    /\ ProtoCall /\ UNCHANGED gesture
    /\ ProtoDeleteSelected /\ Did("deleteSelected", 0, 0)

PCallSetColor ==
    /\ ProtoCall /\ UNCHANGED gesture
    /\ \E color \in Colors : ProtoSetColor(color) /\ Did("setColor", 0, 0)

PCallSetThickness ==
    /\ ProtoCall /\ UNCHANGED gesture
    /\ \E thickness \in Thicknesses :
          ProtoSetThickness(thickness) /\ Did("setThickness", 0, 0)

PCallSetShapeType ==
    /\ ProtoCall /\ UNCHANGED gesture
    /\ \E type \in ShapeTypes : ProtoSetShapeType(type) /\ Did("setShapeType", 0, 0)

PCallClear ==
    /\ ProtoCall /\ UNCHANGED gesture
    /\ ProtoClear /\ Did("clear", 0, 0)

PCallErase ==
    /\ ProtoCall /\ UNCHANGED gesture
    /\ \E x \in Xs, y \in Ys, radius \in Radii :
          ProtoErase(x, y, radius) /\ DidWith("erase", x, y, radius)

NextP ==
    \/ PCallInit
    \/ PCallStartDrawing
    \/ PCallContinueDrawing
    \/ PCallEndDrawing
    \/ PCallStartSelection
    \/ PCallUpdateSelection
    \/ PCallEndSelection
    \/ PCallClearSelection
    \/ PCallMoveSelected
    \/ PCallDeleteSelected
    \/ PCallSetColor
    \/ PCallSetThickness
    \/ PCallSetShapeType
    \/ PCallClear
    \/ PCallErase

SpecP == InitP /\ [][NextP]_vars

-----------------------------------------------------------------------------
(* The specification of both implementations: the host runs the one or the *)
(* other Whiteboard class.                                                 *)

InitBoth == Init \/ InitP

NextBoth == Next \/ NextP

SpecBoth == InitBoth /\ [][NextBoth]_vars

-----------------------------------------------------------------------------
(* The specification of DrawableElement::move: one shape, of any variant,  *)
(* moved by offsets that binary32 sums hold exactly and by one they round. *)

\* The least offset at which float sums of integers begin to round.
BigOffset == Pow2(MantBits)

MoveOffsets == {-1, 0, BigOffset}

\* The shapes moved: strokes of one to three points, rectangles dragged
\* either way, circles of radius 0, sqrt(2) and 5.
MoveShapes ==
    {[Element("Line", "#000000", 2) EXCEPT !.points = pts] :
        pts \in {<<Point(0, 0)>>, <<Point(0, 0), Point(1, 1)>>,
                 <<Point(3, 4), Point(1, 1), Point(1, 1)>>}}
    \cup {[Element("Rectangle", "#000000", 2) EXCEPT !.bounds = b] :
        b \in {Rect(0, 0, 3, 4), Rect(1, 1, -1, -1), Rect(3, 4, 0, 0)}}
    \cup {[Element("Circle", "#000000", 2) EXCEPT !.center = c, !.radius = r] :
        c \in {Point(0, 0), Point(1, 1)}, r \in {FZero, Sqrtf(2), FInt(5)}}

\* A Whiteboard whose collection holds one shape.
InitMove ==
    /\ objs \in {1 :> sh : sh \in MoveShapes}
    /\ elements = <<1>>
    /\ selectedElements = << >>
    /\ currentElement = NULL
    /\ currentColor = "#000000"
    /\ currentThickness = 2
    /\ currentShape = "FREEHAND"
    /\ isSelecting = FALSE
    /\ selectionStart = Point(0, 0)
    /\ lines = << >>
    /\ shapes = << >>
    /\ selectionEnd = Point(0, 0)
    /\ isDrawingShape = FALSE
    /\ currentShapePtr = NULL
    /\ lastOp = Op("Whiteboard", 0, 0)
    /\ calls = 0
    /\ gesture = NoGesture
    /\ impl = "class"

\* element->move(dx, dy) on the shape.
MoveShape ==
    /\ calls < MaxMoves
    /\ UNCHANGED <<elements, selectedElements, currentElement, session, protoOnly,
                   gesture>>
    /\ \E dx \in MoveOffsets, dy \in MoveOffsets :
          /\ objs' = [id \in DOMAIN objs |-> Move(objs[id], dx, dy)]
          /\ Did("move", dx, dy)

NextMove == MoveShape

SpecMove == InitMove /\ [][NextMove]_vars

-----------------------------------------------------------------------------
(* The claims. *)

\* The object at entry i of elements.
At(i) == objs[elements[i]]

\* The entries of elements whose shape has its selected flag on.
SelectedEntries == {i \in 1..Len(elements) : At(i).selected}

\* C1: after deleteSelected() no shape with selected == true remains in the
\* collection, the collection has lost exactly as many entries as had the
\* flag before the call, and the selected view is empty.
C1_DeleteSelected ==
    [][lastOp'.name = "deleteSelected" =>
          /\ \A i \in 1..Len(elements') : ~objs'[elements'[i]].selected
          /\ Len(elements') = Len(elements) - Cardinality(SelectedEntries)
          /\ selectedElements' = << >>]_vars

\* C1 witness: deleteSelected has removed a selected shape (the shape still
\* in progress, flagged and no longer in the collection) and kept another.
C1_Witness ==
    /\ lastOp.name = "deleteSelected"
    /\ elements # << >>
    /\ currentElement # NULL
    /\ objs[currentElement].selected
    /\ currentElement \notin Range(elements)

\* C2: moveSelected(dx, dy) translates every shape of the collection whose
\* selected flag is on by exactly (dx, dy), once.
C2_MovedOnce ==
    [][lastOp'.name = "moveSelected" =>
          \A id \in Range(elements) :
              objs[id].selected => objs'[id] = Move(objs[id], lastOp'.x, lastOp'.y)]_vars

\* C3: moveSelected(dx, dy) leaves every shape of the collection whose
\* selected flag is off as it is.
C3_UnselectedStay ==
    [][lastOp'.name = "moveSelected" =>
          \A id \in Range(elements) : ~objs[id].selected => objs'[id] = objs[id]]_vars

\* The state of a freshly constructed Whiteboard (selectionStart apart,
\* which the constructor leaves indeterminate).
Fresh ==
    /\ elements = << >>
    /\ selectedElements = << >>
    /\ currentElement = NULL
    /\ isSelecting = FALSE
    /\ objs = << >>
    /\ currentShape = "FREEHAND"
    /\ currentColor = "#000000"
    /\ currentThickness = 2

C5_SelectingMode ==
    [][/\ lastOp'.name = "startSelection" => isSelecting'
       /\ isSelecting /\ lastOp'.name # "endSelection" => isSelecting'
       /\ lastOp.name = "startSelection" /\ lastOp'.name = "startDrawing" =>
              Len(elements') = Len(elements)]_vars

\* C6: continueDrawing(x, y) and endDrawing() called while no shape is in
\* progress change neither the collection, nor any shape, nor the session.
C6_NoShapeNoChange ==
    [][lastOp'.name \in {"continueDrawing", "endDrawing"} /\ currentElement = NULL =>
          UNCHANGED <<classOnly, session>>]_vars

\* C6 witness: continueDrawing has been called with shapes in the collection
\* and none in progress.
C6_Witness ==
    /\ lastOp.name = "continueDrawing"
    /\ currentElement = NULL
    /\ elements # << >>

\* C7: in the prototype, continueDrawing(x, y) called when no drawing is
\* under way (after endDrawing() and before the next startDrawing) changes
\* no line and no shape.
C7_IdleContinueKeepsLines ==
    [][lastOp'.name = "continueDrawing" /\ ~gesture.active =>
          lines' = lines /\ shapes' = shapes]_vars

\* The last entry of the collection.
LastElement == objs[elements[Len(elements)]]

\* A gesture startDrawing, continueDrawing..., endDrawing with tool `tool`
\* and no other call in between has just ended.
GestureDone(tool) == gesture.active /\ gesture.done /\ gesture.tool = tool

\* C8: with tool FREEHAND, startDrawing(p0), continueDrawing(p1), ...,
\* continueDrawing(pn), endDrawing() adds exactly one Freehand shape, whose
\* points are [p0, p1, ..., pn] in call order.
C8_FreehandGesture ==
    GestureDone("FREEHAND") =>
        /\ Len(elements) = gesture.len0 + 1
        /\ LastElement.kind = "Line"
        /\ LastElement.points = gesture.pts

\* C8 witness: a freehand gesture of three points, the last one repeated,
\* has ended.
C8_Witness ==
    /\ GestureDone("FREEHAND")
    /\ Len(gesture.pts) = 3
    /\ gesture.pts[2] = gesture.pts[3]
    /\ gesture.pts[1] # gesture.pts[2]

\* C9: with tool RECTANGLE, startDrawing(x0, y0), continueDrawing calls, the
\* last at (x, y), then endDrawing() yields one Rectangle with bounds
\* {x0, y0, x - x0, y - y0}.
C9_RectangleGesture ==
    GestureDone("RECTANGLE") /\ Len(gesture.pts) >= 2 =>
        LET p0 == gesture.pts[1]
            pn == gesture.pts[Len(gesture.pts)]
        IN  /\ Len(elements) = gesture.len0 + 1
            /\ LastElement.kind = "Rectangle"
            /\ LastElement.bounds = Rect(p0.x, p0.y, pn.x - p0.x, pn.y - p0.y)

\* C9 witness: a rectangle gesture with two different continue points, the
\* last one left of and above the anchor, has ended.
C9_Witness ==
    /\ GestureDone("RECTANGLE")
    /\ Len(gesture.pts) = 3
    /\ gesture.pts[2] # gesture.pts[3]
    /\ gesture.pts[3].x < gesture.pts[1].x
    /\ gesture.pts[3].y < gesture.pts[1].y

\* The squared distance of the last point of the gesture to its first.
GestureSpan ==
    LET p0 == gesture.pts[1]
        pn == gesture.pts[Len(gesture.pts)]
    IN  (pn.x - p0.x) * (pn.x - p0.x) + (pn.y - p0.y) * (pn.y - p0.y)

GestureFirst == gesture.pts[1]
GestureLast == gesture.pts[Len(gesture.pts)]

\* The normalized box of the corners p and q: its x and y are the lesser
\* coordinates and its width and height are not negative.
CornerBox(p, q) ==
    Rect(FInt(Min(p.x, q.x)), FInt(Min(p.y, q.y)),
         FInt(Abs(q.x - p.x)), FInt(Abs(q.y - p.y)))

\* C11: getBounds() of a Rectangle drawn from a start corner to an opposite
\* corner, in any of the four directions, is the normalized box of the two
\* corners (so that the corner order makes no difference).
C11_BoundsNormalized ==
    GestureDone("RECTANGLE") /\ Len(gesture.pts) >= 2 =>
        GetBounds(LastElement) = CornerBox(GestureFirst, GestureLast)

\* The points of the plane up to the farthest drawing point.
ProbePoints == [x : 0..SetMax({p.x : p \in DrawPoints}),
                y : 0..SetMax({p.y : p \in DrawPoints})]

\* Point p lies inside or on the border of the normalized box of the
\* corners a and b.
InCornerBox(p, a, b) ==
    /\ Min(a.x, b.x) <= p.x /\ p.x <= Max(a.x, b.x)
    /\ Min(a.y, b.y) <= p.y /\ p.y <= Max(a.y, b.y)

\* C12: Rectangle::containsPoint(px, py) is true exactly when (px, py) lies
\* inside or on the border of the rectangle's normalized box, for a
\* rectangle drawn in any corner order.
C12_ContainsNormalized ==
    GestureDone("RECTANGLE") /\ Len(gesture.pts) >= 2 =>
        \A p \in ProbePoints :
            ContainsPoint(LastElement, p.x, p.y)
                <=> InCornerBox(p, GestureFirst, GestureLast)

\* C13: in each of the two implementations, erase(x, y, r) called twice in
\* a row with the same arguments is idempotent: the second call removes no
\* shape and no stroke point and leaves the whiteboard as the first left it.
C13_EraseIdempotent ==
    [][lastOp'.name = "erase" /\ lastOp'.again > 0 =>
          /\ ~lastOp'.removed
          /\ UNCHANGED <<classOnly, protoOnly, session>>]_vars

\* C13 witness: the prototype's erase has been repeated after it took a
\* point from a stroke that is still there.
C13_Witness ==
    /\ impl = "proto"
    /\ lastOp.name = "erase"
    /\ lastOp.again = 2
    /\ lines # << >>

\* The coordinates a move adds its offsets to: x and y of every point of a
\* stroke, of a rectangle's anchor, of a circle's center.
MovedPoints(o) ==
    CASE o.kind = "Line" -> Range(o.points)
      [] o.kind = "Rectangle" -> {Point(o.bounds.x, o.bounds.y)}
      [] o.kind = "Circle" -> {o.center}

\* move(dx, dy) leaves the size of o alone: in m, o moved, a rectangle's
\* width and height, a circle's radius and the number of a stroke's points
\* are those of o.
SameSize(o, m) ==
    /\ m.kind = o.kind
    /\ m.bounds.width = o.bounds.width /\ m.bounds.height = o.bounds.height
    /\ m.radius = o.radius
    /\ Len(m.points) = Len(o.points)
    /\ m.color = o.color /\ m.thickness = o.thickness /\ m.selected = o.selected

C15_ViewIsFlagged ==
    /\ \A i, j \in DOMAIN selectedElements :
           i # j => selectedElements[i] # selectedElements[j]
    /\ Range(selectedElements) = {id \in Range(elements) : objs[id].selected}

\* The lesser and the greater of two binary32 values.
FMin(a, b) == IF FLess(b, a) THEN b ELSE a
FMax(a, b) == IF FLess(a, b) THEN b ELSE a

\* The normalized box of the Rect b, as its four edges: left and top are the
\* lesser coordinates, right and bottom the greater ones.
NormalizedBounds(b) ==
    [left |-> FMin(b.x, FAdd(b.x, b.width)), right |-> FMax(b.x, FAdd(b.x, b.width)),
     top |-> FMin(b.y, FAdd(b.y, b.height)), bottom |-> FMax(b.y, FAdd(b.y, b.height))]

\* The normalized box n and the normalized rectangle spanned by the points
\* a and p overlap, touching included.
Overlaps(n, a, p) ==
    /\ FLeq(n.left, FInt(Max(a.x, p.x))) /\ FLeq(FInt(Min(a.x, p.x)), n.right)
    /\ FLeq(n.top, FInt(Max(a.y, p.y))) /\ FLeq(FInt(Min(a.y, p.y)), n.bottom)

\* C16: after startSelection(ax, ay) then updateSelection(x, y), a shape of
\* the collection has its selected flag on if and only if its normalized
\* bounding box overlaps, touching included, the normalized rectangle
\* spanned by (ax, ay) and (x, y).
C16_SelectedIffOverlap ==
    [][lastOp.name = "startSelection" /\ lastOp'.name = "updateSelection" =>
          \A id \in Range(elements) :
              objs'[id].selected <=>
                  Overlaps(NormalizedBounds(GetBounds(objs[id])), lastOp, lastOp')]_vars

\* C17: immediately after setShapeType(t), startSelection(x, y) or
\* clearSelection() no shape of the collection has its selected flag on and
\* the selected view is empty, while the collection's membership and order
\* and every shape's geometry, color and thickness are unchanged.
C17_SelectionCleared ==
    [][lastOp'.name \in {"setShapeType", "startSelection", "clearSelection"} =>
          /\ \A id \in Range(elements') : ~objs'[id].selected
          /\ selectedElements' = << >>
          /\ elements' = elements
          /\ \A id \in Range(elements) :
                 objs'[id] = [objs[id] EXCEPT !.selected = FALSE]]_vars

\* C17 witness: a tool change has cleared the selection of a collection in
\* which a shape had its flag on.
C17_Witness ==
    /\ lastOp.name = "setShapeType"
    /\ lastOp.hadSel
    /\ elements # << >>

\* C18: in every reachable state every shape of the collection has a
\* thickness above 0 and every Circle a radius of 0 or more.
C18_ThicknessAndRadius ==
    \A id \in Range(elements) :
        /\ objs[id].thickness > 0
        /\ objs[id].kind = "Circle" => FLeq(FZero, objs[id].radius)

\* C19: erase(x, y, radius) removes exactly the shapes whose
\* containsPoint(x, y) is true: every other shape stays in the collection
\* with its geometry, color, thickness and selected flag, and the shapes
\* that stay keep their relative order.
C19_EraseExact ==
    [][lastOp'.name = "erase" =>
          LET Under(id) == ContainsPoint(objs[id], lastOp'.x, lastOp'.y)
              kept == {i \in DOMAIN elements : ~Under(elements[i])}
          IN  /\ Len(elements') = Cardinality(kept)
              /\ \A id \in Range(elements') : id \in Range(elements) /\ ~Under(id)
              /\ \A id \in Range(elements) :
                     ~Under(id) => id \in Range(elements') /\ objs'[id] = objs[id]
              /\ \A i, j \in DOMAIN elements' :
                     i < j => \E a, b \in kept :
                                 /\ a < b
                                 /\ elements[a] = elements'[i]
                                 /\ elements[b] = elements'[j]]_vars

\* C19 witness: erase has removed a shape and left two others, of different
\* kinds, in the collection.
C19_Witness ==
    /\ lastOp.name = "erase"
    /\ lastOp.removed
    /\ Len(elements) = 2
    /\ At(1).kind # At(2).kind

\* The variant startDrawing makes for a tool.
VariantOf(tool) ==
    CASE tool = "FREEHAND" -> "Line"
      [] tool = "RECTANGLE" -> "Rectangle"
      [] tool = "CIRCLE" -> "Circle"

\* C20: with selecting mode off and the tool FREEHAND, RECTANGLE or CIRCLE,
\* startDrawing(x, y) grows the collection by exactly one shape, placed
\* last, of the tool's variant, with the current color and thickness, the
\* selected flag off and seeded at (x, y); that shape becomes the
\* in-progress shape and all earlier shapes are unchanged.
C20_StartDrawingSeeds ==
    [][/\ lastOp'.name = "startDrawing"
       /\ ~isSelecting
       /\ currentShape \in {"FREEHAND", "RECTANGLE", "CIRCLE"}
       => LET new == elements'[Len(elements')]
              p == Point(lastOp'.x, lastOp'.y)
          IN  /\ Len(elements') = Len(elements) + 1
              /\ SubSeq(elements', 1, Len(elements)) = elements
              /\ new \notin DOMAIN objs
              /\ currentElement' = new
              /\ objs'[new].kind = VariantOf(currentShape)
              /\ objs'[new].color = currentColor
              /\ objs'[new].thickness = currentThickness
              /\ ~objs'[new].selected
              /\ objs'[new].kind = "Line" => objs'[new].points = <<p>>
              /\ objs'[new].kind = "Rectangle" =>
                     objs'[new].bounds = Rect(p.x, p.y, 0, 0)
              /\ objs'[new].kind = "Circle" =>
                     objs'[new].center = p /\ objs'[new].radius = FZero
              /\ \A id \in Range(elements) : objs'[id] = objs[id]]_vars

\* C20 witness: startDrawing has added a Circle in the second color after
\* an earlier shape, and it is the in-progress shape.
C20_Witness ==
    /\ lastOp.name = "startDrawing"
    /\ Len(elements) = 2
    /\ currentElement = elements[2]
    /\ At(2).kind = "Circle"
    /\ At(2).color = "#ff0000"
    /\ At(2).center = Point(lastOp.x, lastOp.y)


\* C21: in the class-based Whiteboard, whenever a shape is in progress
\* (currentElement is not null) it is an entry of the collection.
C21_InProgressInCollection ==
    impl = "class" /\ currentElement # NULL => currentElement \in Range(elements)


\* C22: in the class-based Whiteboard, whenever continueDrawing mutates the
\* in-progress shape (selecting mode off, a shape in progress, the tool
\* FREEHAND, RECTANGLE or CIRCLE), that shape's variant is the one the
\* current tool makes.
C22_MutatedByOwnVariant ==
    [][/\ lastOp'.name = "continueDrawing"
       /\ impl = "class"
       /\ ~isSelecting
       /\ currentElement # NULL
       /\ currentShape \in {"FREEHAND", "RECTANGLE", "CIRCLE"}
       => objs[currentElement].kind = VariantOf(currentShape)]_vars


\* C23: in the class-based Whiteboard, startDrawing with the tool LINE or
\* TRIANGLE and selecting mode off leaves the collection as it was, and the
\* collection holds no shape at two positions.
C23_ReservedToolKeepsCollection ==
    [][/\ lastOp'.name = "startDrawing"
       /\ impl = "class"
       /\ ~isSelecting
       /\ currentShape \in {"LINE", "TRIANGLE"}
       => /\ elements' = elements
          /\ \A i, j \in 1..Len(elements') :
                 elements'[i] = elements'[j] => i = j]_vars


\* C24: in the prototype Whiteboard, setColor(c) while a rectangle or circle
\* is in progress (currentShapePtr points to it) sets that shape's color
\* to c.
C24_SetColorRecolorsInProgress ==
    [][/\ lastOp'.name = "setColor"
       /\ impl = "proto"
       /\ currentShapePtr \in DOMAIN shapes
       => shapes'[currentShapePtr].color = currentColor']_vars


-----------------------------------------------------------------------------
(* The specification of Line::containsPoint as erase applies it: a         *)
(* Whiteboard holding one finished stroke, probed by erase at points on,   *)
(* near and far from the stroke.                                           *)

\* The erase calls made on the stroke.
MaxProbes == 2

\* The strokes probed: a single point, coincident points, segments along an
\* axis and oblique, and one long oblique segment.
HitStrokes ==
    {<<Point(0, 0)>>,
     <<Point(0, 0), Point(0, 0)>>,
     <<Point(1, 1), Point(1, 1), Point(1, 1)>>,
     <<Point(0, 0), Point(10, 0)>>,
     <<Point(0, 0), Point(0, 0), Point(10, 0)>>,
     <<Point(0, 0), Point(3, 4)>>,
     <<Point(0, 0), Point(10, 0), Point(10, 10)>>,
     <<Point(0, 0), Point(403, 354)>>}

\* The points erase is called at: on a stroke, beyond its end on the same
\* line, at distance 4, at distance 5, and two points beside the long
\* segment.
HitProbes ==
    {Point(0, 0), Point(100, 0), Point(5, 4), Point(5, 5), Point(20, 8),
     Point(191, 162), Point(192, 162)}

\* A Whiteboard whose collection holds one finished stroke, drawn in the
\* current color and thickness.
InitHit ==
    /\ \E pts \in HitStrokes, color \in Colors, thickness \in Thicknesses :
          /\ objs = 1 :> [Element("Line", color, thickness) EXCEPT !.points = pts]
          /\ currentColor = color
          /\ currentThickness = thickness
    /\ elements = <<1>>
    /\ selectedElements = << >>
    /\ currentElement = NULL
    /\ currentShape = "FREEHAND"
    /\ isSelecting = FALSE
    /\ selectionStart \in Points
    /\ lines = << >>
    /\ shapes = << >>
    /\ selectionEnd = Point(0, 0)
    /\ isDrawingShape = FALSE
    /\ currentShapePtr = NULL
    /\ lastOp = Op("Whiteboard", 0, 0)
    /\ calls = 0
    /\ gesture = NoGesture
    /\ impl = "class"

\* The host's erase(x, y, radius) on the stroke.
HitErase ==
    /\ calls < MaxProbes
    /\ UNCHANGED gesture
    /\ \E p \in HitProbes, radius \in Radii :
          Erase(p.x, p.y, radius) /\ DidWith("erase", p.x, p.y, radius)

NextHit == HitErase

SpecHit == InitHit /\ [][NextHit]_vars


\* The pairs of consecutive points of a stroke, and for the line through a
\* pair a, b and a point (x, y): the numerator of the distance formula and
\* the squared length of the pair, both exact.
Pairs(pts) == {<<pts[i - 1], pts[i]>> : i \in 2..Len(pts)}
CrossOf(a, b, x, y) == Abs((b.y - a.y) * x - (b.x - a.x) * y + b.x * a.y - b.y * a.x)
SquaredLength(a, b) == (b.y - a.y) * (b.y - a.y) + (b.x - a.x) * (b.x - a.x)

\* For some pair a # b the exact distance from (x, y) to the line through a
\* and b is below 5: cross / sqrt(len) < 5, that is cross^2 < 25 len.
ExactlyNear(pts, x, y) ==
    \E pr \in Pairs(pts) :
        /\ pr[1] # pr[2]
        /\ CrossOf(pr[1], pr[2], x, y) * CrossOf(pr[1], pr[2], x, y)
               < HitTolerance * HitTolerance * SquaredLength(pr[1], pr[2])

\* The room the two roundings (of the root, of the quotient) leave around
\* 25 len: a 2^-20 part of it.
RoundingSlack(len) == (HitTolerance * HitTolerance * len) \div Pow2(MantBits - 4)

\* For some pair a # b the exact squared distance is below 25 by more than
\* the rounding slack.
SurelyNear(pts, x, y) ==
    \E pr \in Pairs(pts) :
        LET cross == CrossOf(pr[1], pr[2], x, y)
            len == SquaredLength(pr[1], pr[2])
        IN  /\ pr[1] # pr[2]
            /\ cross * cross + RoundingSlack(len) < HitTolerance * HitTolerance * len

\* For some pair a # b the exact squared distance is not 25 and is at most
\* 25 plus the rounding slack.
PossiblyNear(pts, x, y) ==
    \E pr \in Pairs(pts) :
        LET cross == CrossOf(pr[1], pr[2], x, y)
            len == SquaredLength(pr[1], pr[2])
        IN  /\ pr[1] # pr[2]
            /\ cross * cross # HitTolerance * HitTolerance * len
            /\ cross * cross <= HitTolerance * HitTolerance * len + RoundingSlack(len)

FlagKeepers ==
    {"endSelection", "startDrawing", "continueDrawing", "endDrawing",
     "moveSelected", "setColor", "setThickness", "erase"}

\* C27: in the class-based Whiteboard, endSelection, startDrawing,
\* continueDrawing, endDrawing, moveSelected, setColor, setThickness and
\* erase leave the selected flag of every shape that stays in the
\* collection as it was.
C27_FlagsKept ==
    [][/\ lastOp'.name \in FlagKeepers
       /\ impl = "class"
       => \A id \in Range(elements) \cap Range(elements') :
              objs'[id].selected = objs[id].selected]_vars

\* C27 witness: endSelection has returned and a shape selected by an
\* earlier updateSelection is still selected.
C27_Witness ==
    /\ impl = "class"
    /\ lastOp.name = "endSelection"
    /\ lastOp.hadSel
    /\ \E id \in Range(elements) : objs[id].selected
    /\ selectedElements # << >>

=============================================================================
